---- MODULE Spec2Model ----
(***************************************************************************)
(* Model of the block-list aggregator of src/adaway/main.py: the health    *)
(* tracker (error_tracker.json), the fetch pool and the merge loop of      *)
(* main().  Python strings are sequences of one-character strings, Python  *)
(* dicts are functions whose DOMAIN is the set of keys, a datetime.date is *)
(* its day number counted from the first of January of EpochYear.          *)
(***************************************************************************)
EXTENDS Integers, Sequences, FiniteSets, TLC

\* ------------------------------------------------------------ bounds
EpochYear == 2024
StartDay == 364
MaxTicks == 1
MaxErrors == 5
MaxUrls == 2
MaxNotified == 8
MaxLineLen == 4
MaxDays == 62

\* ------------------------------------------------------------ program constants
BLOCK_AFTER == 3
SKIP_DAYS == 60

\* ------------------------------------------------------------ characters
LowerCase == <<"a","b","c","d","e","f","g","h","i","j","k","l","m",
               "n","o","p","q","r","s","t","u","v","w","x","y","z">>
UpperCase == <<"A","B","C","D","E","F","G","H","I","J","K","L","M",
               "N","O","P","Q","R","S","T","U","V","W","X","Y","Z">>
DigitChars == <<"0","1","2","3","4","5","6","7","8","9">>

Range(s) == {s[i] : i \in 1..Len(s)}

IsLower(c) == c \in Range(LowerCase)
IsUpper(c) == c \in Range(UpperCase)
IsAlpha(c) == IsLower(c) \/ IsUpper(c)
IsDigit(c) == c \in Range(DigitChars)

\* str.lower() on one character
LowerChar(c) ==
    IF IsUpper(c)
    THEN LowerCase[CHOOSE i \in 1..26 : UpperCase[i] = c]
    ELSE c

\* str.lower()
lower(s) == [i \in 1..Len(s) |-> LowerChar(s[i])]

\* s[a..b], empty when a > b
Slice(s, a, b) == IF a > b THEN <<>> ELSE SubSeq(s, a, b)

\* str.startswith(p)
startswith(s, p) == Len(s) >= Len(p) /\ SubSeq(s, 1, Len(p)) = p

\* index of the first character of s satisfying no strip class, or Len(s)+1
RECURSIVE FirstNot(_, _, _)
FirstNot(s, cls, i) ==
    IF i > Len(s) THEN i
    ELSE IF s[i] \in cls THEN FirstNot(s, cls, i + 1) ELSE i

RECURSIVE LastNot(_, _, _)
LastNot(s, cls, i) ==
    IF i < 1 THEN i
    ELSE IF s[i] \in cls THEN LastNot(s, cls, i - 1) ELSE i

\* str.lstrip(chars), str.rstrip(chars), str.strip()
lstrip(s, cls) == Slice(s, FirstNot(s, cls, 1), Len(s))
rstrip(s, cls) == Slice(s, 1, LastNot(s, cls, Len(s)))
WhiteSpace == {" ", "\t", "\n", "\r"}
strip(s) == rstrip(lstrip(s, WhiteSpace), WhiteSpace)

\* index of the first occurrence of character c at or after i, or Len(s)+1
RECURSIVE FindChar(_, _, _)
FindChar(s, c, i) ==
    IF i > Len(s) THEN i
    ELSE IF s[i] = c THEN i ELSE FindChar(s, c, i + 1)

\* s.split(c)[0]
SplitFirst(s, c) == Slice(s, 1, FindChar(s, c, 1) - 1)

\* str.split(): the whitespace-separated tokens of s
RECURSIVE split(_)
split(s) ==
    LET t == lstrip(s, WhiteSpace)
        e == FirstNot(t, {t[j] : j \in 1..Len(t)} \ WhiteSpace, 1)
    IN  IF t = <<>> THEN <<>>
        ELSE <<Slice(t, 1, e - 1)>> \o split(Slice(t, e, Len(t)))

\* iteration of StringIO(text): the lines of text, each with its "\n"
RECURSIVE Lines(_)
Lines(text) ==
    LET e == FindChar(text, "\n", 1)
    IN  IF text = <<>> THEN <<>>
        ELSE IF e > Len(text) THEN <<text>>
        ELSE <<Slice(text, 1, e)>> \o Lines(Slice(text, e + 1, Len(text)))

\* ------------------------------------------------------------ parse_hosts
\* re.sub(r"^https?://", "", s)
StripScheme(s) ==
    IF startswith(s, <<"h","t","t","p",":","/","/">>) THEN Slice(s, 8, Len(s))
    ELSE IF startswith(s, <<"h","t","t","p","s",":","/","/">>) THEN Slice(s, 9, Len(s))
    ELSE s

\* re.match(r"^[a-zA-Z0-9.-]+\.[a-zA-Z]{2,}$", s): the letters after the last
\* dot are the final label, everything before it is drawn from the class
DomainSyntax(s) ==
    LET dot == LastNot(s, Range(LowerCase) \cup Range(UpperCase), Len(s))
    IN  /\ dot >= 2
        /\ s[dot] = "."
        /\ Len(s) - dot >= 2
        /\ \A i \in 1..(dot - 1) : IsAlpha(s[i]) \/ IsDigit(s[i]) \/ s[i] \in {".", "-"}

\* None of normalize_adblock_line; a domain is never this one-element sequence
NoDomain == <<"None">>

PlainDomain(line) ==
    IF /\ line # <<>>
       /\ \A i \in 1..Len(line) : line[i] \notin {"*", "/", "|", "^"}
       /\ DomainSyntax(line)
    THEN lower(line)
    ELSE NoDomain

AnchoredRule(line) ==
    LET domain == strip(SplitFirst(StripScheme(rstrip(lstrip(line, {"|"}), {"|"})), "^"))
    IN  IF startswith(line, <<"|">>) /\ domain # <<>>
        THEN lower(domain)
        ELSE PlainDomain(line)

normalize_adblock_line(line) ==
    LET domain == strip(SplitFirst(Slice(line, 3, Len(line)), "^"))
    IN  IF startswith(line, <<"|", "|">>) /\ domain # <<>>
        THEN lower(domain)
        ELSE AnchoredRule(line)

SinkholeAddresses == { <<"0",".","0",".","0",".","0">>,
                       <<"1","2","7",".","0",".","0",".","1">> }

\* the body of the loop of parse_hosts: the set of domains one line adds
ParseLine(raw) ==
    LET line  == strip(raw)
        parts == split(line)
    IN  IF line = <<>> \/ startswith(line, <<"#">>) THEN {}
        ELSE IF Len(parts) >= 2 /\ parts[1] \in SinkholeAddresses
             THEN {lower(parts[2])}
        ELSE IF Len(parts) = 1 /\ normalize_adblock_line(parts[1]) # NoDomain
             THEN {normalize_adblock_line(parts[1])}
        ELSE {normalize_adblock_line(line)} \ {NoDomain}

parse_hosts(text) ==
    LET ls == Lines(text)
    IN  UNION {ParseLine(ls[i]) : i \in 1..Len(ls)}

\* ------------------------------------------------------------ calendar
IsLeap(y) == (y % 4 = 0 /\ y % 100 # 0) \/ y % 400 = 0
YearLen(y) == IF IsLeap(y) THEN 366 ELSE 365
DaysInMonth(y, m) ==
    IF m = 2 THEN (IF IsLeap(y) THEN 29 ELSE 28)
    ELSE IF m \in {4, 6, 9, 11} THEN 30 ELSE 31

\* day number of the first of January of year y
RECURSIVE YearStart(_)
YearStart(y) ==
    IF y = EpochYear THEN 0
    ELSE IF y > EpochYear THEN YearStart(y - 1) + YearLen(y - 1)
    ELSE YearStart(y + 1) - YearLen(y)

RECURSIVE MonthStart(_, _)
MonthStart(y, m) == IF m = 1 THEN 0 ELSE MonthStart(y, m - 1) + DaysInMonth(y, m - 1)

\* datetime.date(y, m, d) as a day number
ToOrdinal(y, m, d) == YearStart(y) + MonthStart(y, m) + (d - 1)

RECURSIVE MonthOf(_, _, _)
MonthOf(y, m, n) ==
    IF n >= DaysInMonth(y, m) THEN MonthOf(y, m + 1, n - DaysInMonth(y, m))
    ELSE [year |-> y, month |-> m, day |-> n + 1]

\* the year, month and day fields of the date with day number n
RECURSIVE FromOrdinal(_, _)
FromOrdinal(n, y) ==
    IF n < 0 THEN FromOrdinal(n + YearLen(y - 1), y - 1)
    ELSE IF n >= YearLen(y) THEN FromOrdinal(n - YearLen(y), y + 1)
    ELSE MonthOf(y, 1, n)

\* the decimal digits of n, zero-padded to width w
RECURSIVE Pad(_, _)
Pad(n, w) ==
    IF w = 0 /\ n = 0 THEN <<>>
    ELSE Pad(n \div 10, IF w = 0 THEN 0 ELSE w - 1) \o <<DigitChars[(n % 10) + 1]>>

\* date.strftime("%Y-%m-%d")
strftime(n) ==
    LET f == FromOrdinal(n, EpochYear)
    IN  Pad(f.year, 4) \o <<"-">> \o Pad(f.month, 2) \o <<"-">> \o Pad(f.day, 2)

RECURSIVE DigitsValue(_)
DigitsValue(s) ==
    IF s = <<>> THEN 0
    ELSE 10 * DigitsValue(Slice(s, 1, Len(s) - 1))
         + ((CHOOSE i \in 1..10 : DigitChars[i] = s[Len(s)]) - 1)

AllDigits(s) == \A i \in 1..Len(s) : IsDigit(s[i])

\* datetime.strptime(s, "%Y-%m-%d").date(): [ok |-> FALSE] is ValueError
strptime(s) ==
    LET d1 == FindChar(s, "-", 1)
        d2 == FindChar(s, "-", d1 + 1)
        ys == Slice(s, 1, d1 - 1)
        ms == Slice(s, d1 + 1, d2 - 1)
        ds == Slice(s, d2 + 1, Len(s))
        y  == DigitsValue(ys)
        m  == DigitsValue(ms)
        d  == DigitsValue(ds)
    IN  IF /\ d2 <= Len(s)
           /\ AllDigits(ys) /\ Len(ys) = 4 /\ y >= 1
           /\ AllDigits(ms) /\ Len(ms) \in {1, 2} /\ m \in 1..12
           /\ AllDigits(ds) /\ Len(ds) \in {1, 2} /\ d >= 1
           /\ d <= DaysInMonth(y, m)
        THEN [ok |-> TRUE, date |-> ToOrdinal(y, m, d)]
        ELSE [ok |-> FALSE, date |-> 0]

\* ------------------------------------------------------------ history
\* the window of main.py's log_count_to_history, the row limit of trim_history
RETENTION_DAYS == 30
MAX_ENTRIES == 60

\* code points of the characters of a date string
Ord == [c \in {"-"} \cup Range(DigitChars) |->
            IF c = "-" THEN 45 ELSE 47 + (CHOOSE i \in 1..10 : DigitChars[i] = c)]

\* a < b for two Python strings: the first differing character decides, a
\* proper prefix is smaller
RECURSIVE StrLess(_, _, _)
StrLess(a, b, i) ==
    IF i > Len(a) THEN i <= Len(b)
    ELSE IF i > Len(b) THEN FALSE
    ELSE IF a[i] = b[i] THEN StrLess(a, b, i + 1)
    ELSE Ord[a[i]] < Ord[b[i]]

\* str(n) and int(s) for a count
str(n) == IF n = 0 THEN <<"0">> ELSE Pad(n, 0)
int(s) == DigitsValue(s)

\* a row of a history file: both columns are text
Row(date_str, count) == [date |-> date_str, value |-> str(count)]

\* sorted(rows, key=lambda x: x["date"]): stable, ascending by the date string
RECURSIVE InsertRow(_, _)
InsertRow(rows, r) ==
    IF rows = <<>> THEN <<r>>
    ELSE IF ~StrLess(r.date, rows[Len(rows)].date, 1) THEN Append(rows, r)
    ELSE Append(InsertRow(SubSeq(rows, 1, Len(rows) - 1), r), rows[Len(rows)])

\* no row is followed by one of a smaller date string
NonDecreasing(rows) ==
    \A i \in 1..(Len(rows) - 1) : ~StrLess(rows[i + 1].date, rows[i].date, 1)

\* a stable sort returns rows that are in order as they are, and otherwise
\* inserts them one by one
RECURSIVE sorted(_)
sorted(rows) ==
    IF NonDecreasing(rows) THEN rows
    ELSE InsertRow(sorted(SubSeq(rows, 1, Len(rows) - 1)), rows[Len(rows)])

\* today_found (adaway) and updated (skynet) after the update-or-append loop
Found(rows, date_str) == \E i \in 1..Len(rows) : rows[i].date = date_str

\* Upsert that appends a row whether or not the date is there
Upsert_Append(rows, date_str, count) == Append(rows, Row(date_str, count))

\* the update-or-append loop of both log_count_to_history: the first row of
\* date_str gets the count, or a new row is appended
Upsert(rows, date_str, count) ==
    IF Found(rows, date_str)
    THEN LET first == CHOOSE i \in 1..Len(rows) :
                        /\ rows[i].date = date_str
                        /\ \A j \in 1..(i - 1) : rows[j].date # date_str
         IN  [rows EXCEPT ![first].value = str(count)]
    ELSE Append(rows, Row(date_str, count))

\* a history file that does not exist; an existing one holds its data rows
NoHistory == [exists |-> FALSE, rows |-> <<>>]

\* trim_history that keeps the first MAX_ENTRIES data rows
trim_history_KeepFirst(file) ==
    IF ~file.exists \/ file.rows = <<>> THEN file
    ELSE IF Len(file.rows) > MAX_ENTRIES
    THEN [file EXCEPT !.rows = SubSeq(file.rows, 1, MAX_ENTRIES)]
    ELSE file

\* skynet/plot.py trim_history: the file keeps its last MAX_ENTRIES data rows
trim_history(file) ==
    IF ~file.exists \/ file.rows = <<>> THEN file
    ELSE IF Len(file.rows) > MAX_ENTRIES
    THEN [file EXCEPT !.rows = SubSeq(file.rows, Len(file.rows) - MAX_ENTRIES + 1,
                                      Len(file.rows))]
    ELSE file

\* skynet/plot.py log_count_to_history
ip_log_count_to_history(file, date_str, unique_count) ==
    LET rows == IF file.exists THEN file.rows ELSE <<>>
        rows_sorted == sorted(Upsert(rows, date_str, unique_count))
    IN  trim_history([exists |-> TRUE, rows |-> rows_sorted])

\* strptime of the date strings a run writes, worked out once
WrittenDates ==
    [date_str \in {strftime(n) : n \in (StartDay - 1)..(StartDay + MaxDays + 1)}
        |-> strptime(date_str)]

\* datetime.strptime(row["date"], "%Y-%m-%d").date() of a history row
row_date(date_str) ==
    IF date_str \in DOMAIN WrittenDates THEN WrittenDates[date_str]
    ELSE strptime(date_str)

\* adaway/main.py log_count_to_history, lines 198-207: the rows whose date
\* parses and is not before the cutoff, and whose count is an integer
RecentRows(file, now) ==
    IF file.exists
    THEN SelectSeq(file.rows,
                   LAMBDA r : LET d == row_date(r.date)
                              IN  /\ d.ok
                                  /\ d.date >= now - RETENTION_DAYS
                                  /\ r.value # <<>> /\ AllDigits(r.value))
    ELSE <<>>

\* adaway/main.py log_count_to_history, with utcnow().date() as now
log_count_to_history(file, date_str, count, now) ==
    LET kept == RecentRows(file, now)
        history == [i \in 1..Len(kept) |-> Row(kept[i].date, int(kept[i].value))]
    IN  [exists |-> TRUE, rows |-> sorted(Upsert(history, date_str, count))]

\* ------------------------------------------------------------ dicts
\* a Python dict is a function; {} is the function with the empty domain
EmptyDict == <<>>
Put(d, k, v) == [x \in (DOMAIN d) \cup {k} |-> IF x = k THEN v ELSE d[x]]

\* ------------------------------------------------------------ error tracker
\* None as the value of "skip_until"; a date string is never this sequence
None == <<"None">>

\* truthiness of a "skip_until" value: None and "" are false
Truthy(v) == v # None /\ v # <<>>

\* load_error_tracker: no file, or a file that is not JSON, gives {}
load_error_tracker(file) ==
    IF file.exists /\ file.valid THEN file.data ELSE EmptyDict

\* should_skip_url with >= for >: still skipped on the skip_until day itself
should_skip_url_Inclusive(url, tracker, now) ==
    LET info == IF url \in DOMAIN tracker THEN tracker[url] ELSE EmptyDict
        skip_until == IF "skip_until" \in DOMAIN info THEN info["skip_until"] ELSE None
    IN  /\ Truthy(skip_until)
        /\ strptime(skip_until).ok
        /\ strptime(skip_until).date >= now

\* should_skip_url, with the value of datetime.utcnow().date() as now
should_skip_url(url, tracker, now) ==
    LET info == IF url \in DOMAIN tracker THEN tracker[url] ELSE EmptyDict
        skip_until == IF "skip_until" \in DOMAIN info THEN info["skip_until"] ELSE None
    IN  /\ Truthy(skip_until)
        /\ strptime(skip_until).ok
        /\ strptime(skip_until).date > now

\* record_result, line 73: 1 if the recovery message is sent, else 0; read
\* only when the entry is one that line 73 does not raise on
Recovered(entry) ==
    IF entry["consecutive_errors"] > 0 THEN 1
    ELSE IF Truthy(entry["skip_until"]) THEN 1 ELSE 0

\* RecordSuccess that resets the count and leaves skip_until as it was
RecordSuccess_KeepDate(url, entry, tracker) ==
    IF "consecutive_errors" \notin DOMAIN entry
    THEN [raised |-> TRUE, tracker |-> tracker, notified |-> 0]
    ELSE IF entry["consecutive_errors"] = 0 /\ "skip_until" \notin DOMAIN entry
    THEN [raised |-> TRUE, tracker |-> tracker, notified |-> 0]
    ELSE [raised |-> FALSE,
          tracker |-> Put(tracker, url, Put(entry, "consecutive_errors", 0)),
          notified |-> Recovered(entry)]

\* the success branch of record_result; raised is KeyError, notified the
\* number of messages sent
RecordSuccess(url, entry, tracker) ==
    IF "consecutive_errors" \notin DOMAIN entry
    THEN [raised |-> TRUE, tracker |-> tracker, notified |-> 0]
    ELSE IF entry["consecutive_errors"] = 0 /\ "skip_until" \notin DOMAIN entry
    THEN [raised |-> TRUE, tracker |-> tracker, notified |-> 0]
    ELSE [raised |-> FALSE,
          tracker |-> Put(tracker, url,
                          Put(Put(entry, "consecutive_errors", 0), "skip_until", None)),
          notified |-> Recovered(entry)]

\* RecordFailure with the threshold one too low: blocked at the second failure
RecordFailure_BlockEarly(url, entry, tracker, now) ==
    IF "consecutive_errors" \notin DOMAIN entry
    THEN [raised |-> TRUE, tracker |-> tracker, notified |-> 0]
    ELSE LET count == entry["consecutive_errors"] + 1
             bumped == Put(entry, "consecutive_errors", count)
         IN  [raised |-> FALSE,
              tracker |-> Put(tracker, url,
                              IF count < BLOCK_AFTER - 1 THEN bumped
                              ELSE Put(bumped, "skip_until", strftime(now + SKIP_DAYS))),
              notified |-> 1]

\* RecordFailure with the cooldown counted from the day after the failure
RecordFailure_LateDate(url, entry, tracker, now) ==
    IF "consecutive_errors" \notin DOMAIN entry
    THEN [raised |-> TRUE, tracker |-> tracker, notified |-> 0]
    ELSE LET count == entry["consecutive_errors"] + 1
             bumped == Put(entry, "consecutive_errors", count)
         IN  [raised |-> FALSE,
              tracker |-> Put(tracker, url,
                              IF count < BLOCK_AFTER THEN bumped
                              ELSE Put(bumped, "skip_until", strftime(now + SKIP_DAYS + 1))),
              notified |-> 1]

\* RecordFailure that starts a new count once the skip_until date is reached
RecordFailure_FreshStart(url, entry, tracker, now) ==
    IF "consecutive_errors" \notin DOMAIN entry
    THEN [raised |-> TRUE, tracker |-> tracker, notified |-> 0]
    ELSE LET over == /\ "skip_until" \in DOMAIN entry
                     /\ Truthy(entry["skip_until"])
                     /\ strptime(entry["skip_until"]).ok
                     /\ strptime(entry["skip_until"]).date <= now
             count == IF over THEN 1 ELSE entry["consecutive_errors"] + 1
             bumped == Put(entry, "consecutive_errors", count)
         IN  [raised |-> FALSE,
              tracker |-> Put(tracker, url,
                              IF over THEN Put(bumped, "skip_until", None)
                              ELSE IF count < BLOCK_AFTER THEN bumped
                              ELSE Put(bumped, "skip_until", strftime(now + SKIP_DAYS))),
              notified |-> 1]

\* the failure branch of record_result
RecordFailure(url, entry, tracker, now) ==
    IF "consecutive_errors" \notin DOMAIN entry
    THEN [raised |-> TRUE, tracker |-> tracker, notified |-> 0]
    ELSE LET count == entry["consecutive_errors"] + 1
             bumped == Put(entry, "consecutive_errors", count)
         IN  [raised |-> FALSE,
              tracker |-> Put(tracker, url,
                              IF count < BLOCK_AFTER THEN bumped
                              ELSE Put(bumped, "skip_until", strftime(now + SKIP_DAYS))),
              notified |-> 1]

\* record_result with {} as the default entry, as should_skip_url has it
record_result_NoDefault(url, success, tracker, now) ==
    LET entry == IF url \in DOMAIN tracker THEN tracker[url] ELSE EmptyDict
    IN  IF success THEN RecordSuccess(url, entry, tracker)
        ELSE RecordFailure(url, entry, tracker, now)

record_result(url, success, tracker, now) ==
    LET entry == IF url \in DOMAIN tracker THEN tracker[url]
                 ELSE [consecutive_errors |-> 0, skip_until |-> None]
    IN  IF success THEN RecordSuccess(url, entry, tracker)
        ELSE RecordFailure(url, entry, tracker, now)

\* ------------------------------------------------------------ inputs
URLs == {"u1", "u2"}

\* the lists load_urls can return: any sequence of URLs, repeats included
SourceLists == UNION {[1..n -> URLs] : n \in 0..MaxUrls}

TextEmpty == <<>>
TextComment == <<"#"," ","x","\n">>
TextHosts == <<"0",".","0",".","0",".","0"," ","A","b",".","i","o","\n","1","2","7",".","0",".","0",".","1"," ","a","b",".","i","o","\n">>
TextAdblock == <<"|","|","t",".","i","o","^","\n","a","b",".","i","o","\n">>
\* what download_list can return: "" on any error, else the response body
Texts == {TextEmpty, TextComment, TextHosts, TextAdblock}

\* parse_hosts(text) for the texts a fetch can return, worked out once
Parsed == [text \in Texts |-> parse_hosts(text)]

\* ------------------------------------------------------------ state
VARIABLES
    today,              \* datetime.utcnow().date(), as a day number
    ticks,              \* how often the date has advanced
    pc,                 \* where main() is: start, submit, collect, done, aborted, exited
    urls,               \* main: urls
    next_url,           \* position of the submit loop in urls
    futures,            \* main: futures, task number -> url, state and result
    all_domains,        \* main: all_domains
    domains_per_source, \* main: domains_per_source
    error_tracker,      \* main: error_tracker
    tracker_file,       \* error_tracker.json
    unified_hosts,      \* unified_hosts.txt
    notified,           \* number of send_telegram_message calls made
    counts_history,     \* counts_history.csv (adaway)
    ip_counts_history,  \* ip_counts_history.csv (skynet)
    log_args,           \* log_count_to_history: the arguments of the last call,
                        \* its today_found (adaway) and its updated (skynet)
    hosts_text,         \* parse_hosts: the text of the call being made
    hosts_domains       \* parse_hosts: the set the call returned

\* the files and values main() of adaway/main.py leaves alone
others == <<ip_counts_history, hosts_text, hosts_domains>>

NoCall == [date_str |-> <<>>, count |-> 0, today_found |-> FALSE, updated |-> FALSE]

vars == <<today, ticks, pc, urls, next_url, futures, all_domains,
          domains_per_source, error_tracker, tracker_file, unified_hosts,
          notified, counts_history, ip_counts_history, log_args,
          hosts_text, hosts_domains>>

NoFile == [exists |-> FALSE, valid |-> FALSE, data |-> EmptyDict]
NoOutput == [written |-> FALSE, total_unique |-> 0,
             per_source |-> EmptyDict, domains |-> {}]

InitRun ==
    /\ today = StartDay
    /\ ticks = 0
    /\ pc = "start"
    /\ urls = <<>>
    /\ next_url = 1
    /\ futures = EmptyDict
    /\ all_domains = {}
    /\ domains_per_source = EmptyDict
    /\ error_tracker = EmptyDict
    /\ unified_hosts = NoOutput
    /\ notified = 0
    /\ counts_history = NoHistory
    /\ ip_counts_history = NoHistory
    /\ log_args = NoCall
    /\ hosts_text = <<>>
    /\ hosts_domains = {}

\* a HealthRecord as record_result writes it
Record(errors, skip_until) == [consecutive_errors |-> errors, skip_until |-> skip_until]
Stored(data) == [exists |-> TRUE, valid |-> TRUE, data |-> data]

\* date strings strptime rejects, and one it accepts although strftime never writes it
BadDay == <<"2","0","2","5","-","0","2","-","3","0">>
NotADate == <<"s","o","o","n">>
Unpadded(n) ==
    LET f == FromOrdinal(n, EpochYear)
    IN  Pad(f.year, 4) \o <<"-">> \o Pad(f.month, 0) \o <<"-">> \o Pad(f.day, 0)

\* contents of error_tracker.json as earlier runs leave them
WrittenFiles ==
    { NoFile,
      Stored("u1" :> Record(2, None) @@ "u2" :> Record(0, None)),
      Stored("u1" :> Record(BLOCK_AFTER, strftime(StartDay + SKIP_DAYS))
             @@ "u2" :> Record(1, None)),
      Stored("u1" :> Record(BLOCK_AFTER, strftime(StartDay + 1))
             @@ "u2" :> Record(BLOCK_AFTER + 1, strftime(StartDay))) }

\* contents no run writes: not JSON, a record without a field, a bad date
DamagedFiles ==
    { [exists |-> TRUE, valid |-> FALSE, data |-> EmptyDict],
      Stored("u1" :> [skip_until |-> None] @@ "u2" :> Record(2, None)),
      Stored("u1" :> [consecutive_errors |-> 0]),
      Stored("u1" :> Record(BLOCK_AFTER, BadDay) @@ "u2" :> Record(BLOCK_AFTER, NotADate)),
      Stored("u1" :> Record(BLOCK_AFTER, Unpadded(StartDay + SKIP_DAYS))
             @@ "u2" :> Record(BLOCK_AFTER, <<>>)) }

PersistedFiles == WrittenFiles \cup DamagedFiles

Init == InitRun /\ tracker_file \in PersistedFiles

\* ------------------------------------------------------------ actions
\* midnight (UTC) passes, at any point of the run
Tick ==
    /\ ticks < MaxTicks
    /\ today' = today + 1
    /\ ticks' = ticks + 1
    /\ UNCHANGED <<pc, urls, next_url, futures, all_domains,
                   domains_per_source, error_tracker, tracker_file, unified_hosts,
                   notified, counts_history, log_args, others>>

\* SourcesFailure that goes on with an empty list of sources
SourcesFailure_CarryOn ==
    /\ pc = "start"
    /\ pc' = "collect"
    /\ notified' = notified + 1
    /\ error_tracker' = load_error_tracker(tracker_file)
    /\ UNCHANGED <<today, ticks, urls, next_url, futures, all_domains,
                   domains_per_source, tracker_file, unified_hosts,
                   counts_history, log_args, others>>

\* update_sources_file, lines 119-123, and load_urls, lines 134-138: the
\* refresh fails or the sources file is missing; one message, then sys.exit(1),
\* which the except Exception of main does not catch
SourcesFailure ==
    /\ pc = "start"
    /\ pc' = "exited"
    /\ notified' = notified + 1
    /\ UNCHANGED <<today, ticks, urls, next_url, futures, all_domains,
                   domains_per_source, error_tracker, tracker_file, unified_hosts,
                   counts_history, log_args, others>>

\* main, lines 232-238: the source list is read, the tracker is loaded
StartRun ==
    /\ pc = "start"
    /\ \E list \in SourceLists :
        /\ urls' = list
        /\ pc' = IF list = <<>> THEN "collect" ELSE "submit"
    /\ next_url' = 1
    /\ futures' = EmptyDict
    /\ all_domains' = {}
    /\ domains_per_source' = EmptyDict
    /\ error_tracker' = load_error_tracker(tracker_file)
    /\ UNCHANGED <<today, ticks, tracker_file, unified_hosts,
                   notified, counts_history, log_args, others>>

\* SubmitStep that counts a skipped source as 0 and submits it all the same
SubmitStep_FetchAnyway ==
    /\ pc = "submit"
    /\ LET url == urls[next_url]
       IN  /\ futures' = Put(futures, next_url,
                             [url |-> url, state |-> "running",
                              text |-> TextEmpty, raised |-> FALSE])
           /\ IF should_skip_url(url, error_tracker, today)
              THEN domains_per_source' = Put(domains_per_source, url, 0)
              ELSE UNCHANGED domains_per_source
    /\ next_url' = next_url + 1
    /\ pc' = IF next_url = Len(urls) THEN "collect" ELSE "submit"
    /\ UNCHANGED <<today, ticks, urls, all_domains, error_tracker,
                   tracker_file, unified_hosts, notified, counts_history, log_args, others>>

\* SubmitStep that forgets the record of a source it skips
SubmitStep_ForgetSkipped ==
    /\ pc = "submit"
    /\ LET url == urls[next_url]
       IN  IF should_skip_url(url, error_tracker, today)
           THEN /\ domains_per_source' = Put(domains_per_source, url, 0)
                /\ error_tracker' = Put(error_tracker, url, Record(0, None))
                /\ UNCHANGED futures
           ELSE /\ futures' = Put(futures, next_url,
                                  [url |-> url, state |-> "running",
                                   text |-> TextEmpty, raised |-> FALSE])
                /\ UNCHANGED <<domains_per_source, error_tracker>>
    /\ next_url' = next_url + 1
    /\ pc' = IF next_url = Len(urls) THEN "collect" ELSE "submit"
    /\ UNCHANGED <<today, ticks, urls, all_domains,
                   tracker_file, unified_hosts, notified, counts_history, log_args, others>>

\* main, lines 242-246: one iteration of the submit loop
SubmitStep ==
    /\ pc = "submit"
    /\ LET url == urls[next_url]
       IN  IF should_skip_url(url, error_tracker, today)
           THEN /\ domains_per_source' = Put(domains_per_source, url, 0)
                /\ UNCHANGED futures
           ELSE /\ futures' = Put(futures, next_url,
                                  [url |-> url, state |-> "running",
                                   text |-> TextEmpty, raised |-> FALSE])
                /\ UNCHANGED domains_per_source
    /\ next_url' = next_url + 1
    /\ pc' = IF next_url = Len(urls) THEN "collect" ELSE "submit"
    /\ UNCHANGED <<today, ticks, urls, all_domains, error_tracker,
                   tracker_file, unified_hosts, notified, counts_history, log_args, others>>

\* FetchDone with the worker merging what it fetched into the shared set
FetchDone_WorkerMerges ==
    /\ pc \in {"submit", "collect"}
    /\ \E t \in DOMAIN futures, text \in Texts :
        /\ futures[t].state = "running"
        /\ futures' = [futures EXCEPT ![t].state = "finished", ![t].text = text]
        /\ all_domains' = all_domains \cup Parsed[text]
    /\ UNCHANGED <<today, ticks, pc, urls, next_url,
                   domains_per_source, error_tracker, tracker_file, unified_hosts,
                   notified, counts_history, log_args, others>>

\* download_list in a pool worker: the future completes with (url, text)
FetchDone ==
    /\ pc \in {"submit", "collect"}
    /\ \E t \in DOMAIN futures, text \in Texts :
        /\ futures[t].state = "running"
        /\ futures' = [futures EXCEPT ![t].state = "finished", ![t].text = text]
    /\ UNCHANGED <<today, ticks, pc, urls, next_url, all_domains,
                   domains_per_source, error_tracker, tracker_file, unified_hosts,
                   notified, counts_history, log_args, others>>

\* main, lines 260-265: the except handler; a second exception leaves main
HandleException(url, domains, counts, tracker, now) ==
    LET r == record_result(url, FALSE, tracker, now)
    IN  [aborted |-> r.raised, all_domains |-> domains,
         domains_per_source |-> Put(counts, url, 0), error_tracker |-> r.tracker,
         notified |-> 1 + r.notified]

\* ProcessFuture that takes a fetch for a success only if it yields entries
ProcessFuture_SuccessIfEntries(url, text, raises, domains, counts, tracker, now) ==
    IF raises THEN HandleException(url, domains, counts, tracker, now)
    ELSE IF Parsed[text] # {}
    THEN LET found == Parsed[text]
             r == record_result(url, TRUE, tracker, now)
         IN  IF r.raised
             THEN HandleException(url, domains \cup found,
                                  Put(counts, url, Cardinality(found)), tracker, now)
             ELSE [aborted |-> FALSE, all_domains |-> domains \cup found,
                   domains_per_source |-> Put(counts, url, Cardinality(found)),
                   error_tracker |-> r.tracker, notified |-> r.notified]
    ELSE LET r == record_result(url, FALSE, tracker, now)
         IN  IF r.raised
             THEN HandleException(url, domains, Put(counts, url, 0), tracker, now)
             ELSE [aborted |-> FALSE, all_domains |-> domains,
                   domains_per_source |-> Put(counts, url, 0),
                   error_tracker |-> r.tracker, notified |-> r.notified]

\* main, lines 249-265: the body of the as_completed loop for one future;
\* raises says that lines 251-253 raise before anything is updated
ProcessFuture(url, text, raises, domains, counts, tracker, now) ==
    IF raises THEN HandleException(url, domains, counts, tracker, now)
    ELSE IF text # <<>>
    THEN LET found == Parsed[text]
             r == record_result(url, TRUE, tracker, now)
         IN  IF r.raised
             THEN HandleException(url, domains \cup found,
                                  Put(counts, url, Cardinality(found)), tracker, now)
             ELSE [aborted |-> FALSE, all_domains |-> domains \cup found,
                   domains_per_source |-> Put(counts, url, Cardinality(found)),
                   error_tracker |-> r.tracker, notified |-> r.notified]
    ELSE LET r == record_result(url, FALSE, tracker, now)
         IN  IF r.raised
             THEN HandleException(url, domains, Put(counts, url, 0), tracker, now)
             ELSE [aborted |-> FALSE, all_domains |-> domains,
                   domains_per_source |-> Put(counts, url, 0),
                   error_tracker |-> r.tracker, notified |-> r.notified]

\* as_completed yields any finished future that was not yet consumed; an
\* exception that leaves the loop is reported by lines 297-300 and raised again
ProcessResult ==
    /\ pc = "collect"
    /\ \E t \in DOMAIN futures, raises \in BOOLEAN :
        /\ futures[t].state = "finished"
        /\ LET o == ProcessFuture(futures[t].url, futures[t].text, raises,
                                  all_domains, domains_per_source, error_tracker, today)
           IN  /\ all_domains' = o.all_domains
               /\ domains_per_source' = o.domains_per_source
               /\ error_tracker' = o.error_tracker
               /\ pc' = IF o.aborted THEN "aborted" ELSE "collect"
               /\ notified' = notified + o.notified + (IF o.aborted THEN 1 ELSE 0)
        /\ futures' = [futures EXCEPT ![t].state = "consumed", ![t].raised = raises]
    /\ UNCHANGED <<today, ticks, urls, next_url, tracker_file, unified_hosts,
                   counts_history, log_args, others>>

\* main, lines 267-295: the tracker is saved, unified_hosts.txt written and
\* the count of the day logged
FinishRun ==
    /\ pc = "collect"
    /\ \A t \in DOMAIN futures : futures[t].state = "consumed"
    /\ tracker_file' = [exists |-> TRUE, valid |-> TRUE, data |-> error_tracker]
    /\ unified_hosts' = [written |-> TRUE,
                         total_unique |-> Cardinality(all_domains),
                         per_source |-> domains_per_source,
                         domains |-> all_domains]
    /\ counts_history' = log_count_to_history(counts_history, strftime(today),
                                               Cardinality(all_domains), today)
    /\ log_args' = [date_str |-> strftime(today), count |-> Cardinality(all_domains),
                    today_found |-> Found(RecentRows(counts_history, today), strftime(today)),
                    updated |-> FALSE]
    /\ pc' = "done"
    /\ UNCHANGED <<today, ticks, urls, next_url, futures, all_domains,
                   domains_per_source, error_tracker, notified, others>>

\* the exit status of the process: 0 after main returns, 1 after sys.exit(1)
\* or an exception that leaves main, -1 while it runs
ExitStatus ==
    IF pc = "done" THEN 0
    ELSE IF pc \in {"aborted", "exited"} THEN 1 ELSE 0 - 1

Next ==
    \/ Tick
    \/ SourcesFailure
    \/ StartRun
    \/ SubmitStep
    \/ FetchDone
    \/ ProcessResult
    \/ FinishRun

Spec == Init /\ [][Next]_vars

\* WF_vars(SubmitStep): the step is enabled exactly while pc = "submit"
SubmitFair == []<>(pc # "submit") \/ []<><<SubmitStep>>_vars

\* the main thread keeps running its loop, and every pool worker returns
\* (requests.get has a timeout)
SpecLive == Init /\ [][Next]_vars /\ SubmitFair /\ WF_vars(FetchDone)

\* ------------------------------------------------------------ the tracker alone
\* record_result called directly, on any URL with any outcome, from an empty
\* tracker; a further failure is not drawn once MaxErrors is reached, nor a
\* call that would send more than MaxNotified messages in all
RecordCall ==
    /\ \E url \in URLs, success \in BOOLEAN :
        /\ IF success \/ url \notin DOMAIN error_tracker THEN TRUE
           ELSE error_tracker[url]["consecutive_errors"] < MaxErrors
        /\ LET r == record_result(url, success, error_tracker, today)
           IN  /\ notified + r.notified <= MaxNotified
               /\ error_tracker' = r.tracker
               /\ notified' = notified + r.notified
    /\ UNCHANGED <<today, ticks, pc, urls, next_url, futures, all_domains,
                   domains_per_source, tracker_file, unified_hosts,
                   counts_history, log_args, others>>

InitTracker == InitRun /\ tracker_file = NoFile

NextTracker == Tick \/ RecordCall

SpecTracker == InitTracker /\ [][NextTracker]_vars

\* ------------------------------------------------------------ the parser alone
\* one line of a fetched list: what precedes the host, the host, what follows
LinePrefixes ==
    { <<>>,
      <<"0",".","0",".","0",".","0"," ">>,
      <<"1","2","7",".","0",".","0",".","1"," ">>,
      <<"|","|">>,
      <<"|">>,
      <<"|","h","t","t","p",":","/","/">>,
      <<"#">> }
LineChars == {"a", "B", ".", "-", "*"}
LineBodies == UNION {[1..n -> LineChars] : n \in 1..MaxLineLen}
LineSuffixes == { <<>>, <<"^","a">>, <<"|">>, <<"\n">> }
HostsLines ==
    {prefix \o body \o suffix :
        prefix \in LinePrefixes, body \in LineBodies, suffix \in LineSuffixes}

\* parse_hosts is about to be called on a single line
InitParse ==
    /\ today = StartDay
    /\ ticks = 0
    /\ pc = "call"
    /\ urls = <<>>
    /\ next_url = 1
    /\ futures = EmptyDict
    /\ all_domains = {}
    /\ domains_per_source = EmptyDict
    /\ error_tracker = EmptyDict
    /\ tracker_file = NoFile
    /\ unified_hosts = NoOutput
    /\ notified = 0
    /\ counts_history = NoHistory
    /\ ip_counts_history = NoHistory
    /\ log_args = NoCall
    /\ hosts_text \in HostsLines
    /\ hosts_domains = {}

\* parse_hosts(text) returns
ParseCall ==
    /\ pc \in {"call", "call again"}
    /\ hosts_domains' = parse_hosts(hosts_text)
    /\ pc' = IF pc = "call" THEN "returned" ELSE "returned again"
    /\ UNCHANGED <<today, ticks, urls, next_url, futures, all_domains,
                   domains_per_source, error_tracker, tracker_file, unified_hosts,
                   notified, counts_history, ip_counts_history, log_args, hosts_text>>

\* an entry that was extracted is fed back as the text of a further call
FeedBack ==
    /\ pc = "returned"
    /\ \E entry \in hosts_domains : hosts_text' = entry
    /\ pc' = "call again"
    /\ UNCHANGED <<today, ticks, urls, next_url, futures, all_domains,
                   domains_per_source, error_tracker, tracker_file, unified_hosts,
                   notified, counts_history, ip_counts_history, log_args, hosts_domains>>

NextParse == ParseCall \/ FeedBack

SpecParse == InitParse /\ [][NextParse]_vars

\* ------------------------------------------------------------ the histories alone
\* the counts a run can log
Counts == {1, 2}

\* a history file that exists and holds no data row
EmptyHistory == [exists |-> TRUE, rows |-> <<>>]

HasDate(file, date_str) == \E i \in 1..Len(file.rows) : file.rows[i].date = date_str

\* the count the last run of day n logs
DayCount(n) == 1 + (n % 2)

\* both history files are absent, or both are there and empty
InitHistory ==
    /\ today = StartDay
    /\ ticks = 0
    /\ pc = "log"
    /\ urls = <<>>
    /\ next_url = 1
    /\ futures = EmptyDict
    /\ all_domains = {}
    /\ domains_per_source = EmptyDict
    /\ error_tracker = EmptyDict
    /\ tracker_file = NoFile
    /\ unified_hosts = NoOutput
    /\ notified = 0
    /\ \E file \in {NoHistory, EmptyHistory} :
        counts_history = file /\ ip_counts_history = file
    /\ log_args = NoCall
    /\ hosts_text = <<>>
    /\ hosts_domains = {}

\* adaway/main.py line 295 and skynet/plot.py line 146: each program logs its
\* count of the day, here the same count, date_str being utcnow() formatted
LogCount ==
    /\ pc = "log"
    /\ \E count \in Counts :
        /\ log_args' = [date_str |-> strftime(today), count |-> count,
                        today_found |-> Found(RecentRows(counts_history, today),
                                              strftime(today)),
                        updated |-> Found(ip_counts_history.rows, strftime(today))]
        /\ counts_history' =
                log_count_to_history(counts_history, strftime(today), count, today)
        /\ ip_counts_history' =
                ip_log_count_to_history(ip_counts_history, strftime(today), count)
    /\ UNCHANGED <<today, ticks, pc, urls, next_url, futures, all_domains,
                   domains_per_source, error_tracker, tracker_file, unified_hosts,
                   notified, hosts_text, hosts_domains>>

\* the count the file holds for the date
ValueOn(file, date_str) ==
    file.rows[CHOOSE i \in 1..Len(file.rows) : file.rows[i].date = date_str].value

\* midnight (UTC) passes after the last run of the day has logged its count
NextDay ==
    /\ pc = "log"
    /\ today < StartDay + MaxDays
    /\ HasDate(ip_counts_history, strftime(today))
    /\ ValueOn(ip_counts_history, strftime(today)) = str(DayCount(today))
    /\ today' = today + 1
    /\ UNCHANGED <<ticks, pc, urls, next_url, futures, all_domains,
                   domains_per_source, error_tracker, tracker_file, unified_hosts,
                   notified, counts_history, ip_counts_history, log_args,
                   hosts_text, hosts_domains>>

NextHistory == LogCount \/ NextDay

SpecHistory == InitHistory /\ [][NextHistory]_vars

\* ------------------------------------------------------------ properties
Errors(tracker, url) ==
    IF url \in DOMAIN tracker THEN tracker[url]["consecutive_errors"] ELSE 0

\* C1: from an empty health store, whatever record_result calls were made,
\* a stored record has skip_until set only if its consecutive_errors is at
\* least 3; a streak of 1 or 2 failures never has it set.
C1_SkipUntilOnlyWhenBlocked ==
    \A url \in DOMAIN error_tracker :
        error_tracker[url]["skip_until"] # None
            => error_tracker[url]["consecutive_errors"] >= 3

\* one source is blocked while another one is on its first or second failure
C1_Witness ==
    \E a, b \in DOMAIN error_tracker :
        /\ error_tracker[a]["skip_until"] # None
        /\ error_tracker[b]["consecutive_errors"] \in {1, 2}
        /\ error_tracker[b]["skip_until"] = None

\* C2: the first and second failure in a row of a healthy source leave
\* skip_until unset; the third, made on day d, sets skip_until to the date
\* d + 60, and should_skip is then true on every day t with d <= t < d + 60.
C2_ThirdFailureBlocks ==
    [][\A url \in URLs :
        (url \in DOMAIN error_tracker'
            /\ Errors(error_tracker', url) = Errors(error_tracker, url) + 1)
        => LET after == error_tracker'[url]
           IN  IF after["consecutive_errors"] < 3
               THEN after["skip_until"] = None
               ELSE after["consecutive_errors"] = 3
                    => /\ strptime(after["skip_until"]).ok
                       /\ strptime(after["skip_until"]).date = today + 60
                       /\ \A t \in today..(today + 59) :
                            should_skip_url(url, error_tracker', t)
      ]_vars

\* a source at exactly three failures in a row, blocked
C2_Witness ==
    \E url \in DOMAIN error_tracker :
        /\ error_tracker[url]["consecutive_errors"] = 3
        /\ should_skip_url(url, error_tracker, today)

\* ---- properties of one run of main()
\* the record of url has both fields, or url has no record yet
Intact(tracker, url) ==
    url \in DOMAIN tracker
        => {"consecutive_errors", "skip_until"} \subseteq DOMAIN tracker[url]

\* the step consumes future t and lines 251-253 did not raise
Consumes(t) ==
    /\ t \in DOMAIN futures
    /\ futures[t].state = "finished"
    /\ futures'[t].state = "consumed"
    /\ ~futures'[t].raised

\* the dates a stored skip_until may fall on
DateWindow == (StartDay - 2)..(StartDay + SKIP_DAYS + MaxTicks + 2)

\* the ways of writing the date with day number n as year-month-day, month
\* and day with or without a leading zero
Spellings(n) ==
    LET f == FromOrdinal(n, EpochYear)
    IN  { Pad(f.year, 4) \o <<"-">> \o Pad(f.month, mw) \o <<"-">> \o Pad(f.day, dw) :
            mw \in {0, 2}, dw \in {0, 2} }

\* the day number a well-formed date string stands for
DateOf ==
    [text \in UNION {Spellings(n) : n \in DateWindow}
        |-> CHOOSE n \in DateWindow : text \in Spellings(n)]

\* C3: should_skip is true exactly when the record of the URL holds a
\* skip_until that is a well-formed date strictly later than today; no record,
\* no skip_until, a date today or earlier, or a malformed date string give false.
C3_SkipIffLaterDate ==
    \A url \in URLs :
        should_skip_url(url, error_tracker, today)
        <=> /\ url \in DOMAIN error_tracker
            /\ "skip_until" \in DOMAIN error_tracker[url]
            /\ error_tracker[url]["skip_until"] \in DOMAIN DateOf
            /\ DateOf[error_tracker[url]["skip_until"]] > today

\* a fetch was dispatched for a source whose stored skip_until is no date
C3_Witness ==
    \E t \in DOMAIN futures :
        /\ futures[t].url \in DOMAIN error_tracker
        /\ "skip_until" \in DOMAIN error_tracker[futures[t].url]
        /\ error_tracker[futures[t].url]["skip_until"] \in {BadDay, NotADate}

\* C4: a source for which should_skip is true when the submit loop reaches it
\* gets per_source 0 and no fetch task; unless the same URL is also fetched
\* from another line of the list, its count is still 0 afterwards.
C4_SkippedNotFetched ==
    [][/\ (pc = "submit" /\ next_url' = next_url + 1
              /\ should_skip_url(urls[next_url], error_tracker, today))
          => /\ futures' = futures
             /\ urls[next_url] \in DOMAIN domains_per_source'
             /\ domains_per_source'[urls[next_url]] = 0
       /\ \A i \in 1..(next_url' - 1) :
            (i \notin DOMAIN futures'
                /\ \A t \in DOMAIN futures' : futures'[t].url # urls'[i])
            => /\ urls'[i] \in DOMAIN domains_per_source'
               /\ domains_per_source'[urls'[i]] = 0
      ]_vars

\* the run is over and a source with three failures on record was left out
C4_Witness ==
    /\ pc = "done"
    /\ \E i \in 1..Len(urls) :
        /\ i \notin DOMAIN futures
        /\ Intact(error_tracker, urls[i])
        /\ urls[i] \in DOMAIN domains_per_source
        /\ urls[i] \in DOMAIN unified_hosts.per_source
        /\ Errors(error_tracker, urls[i]) = 3
        /\ domains_per_source[urls[i]] = 0
        /\ unified_hosts.per_source[urls[i]] = 0

\* the as_completed loop has consumed every future and main is still running
LoopDone ==
    /\ pc = "collect"
    /\ \A t \in DOMAIN futures : futures[t].state = "consumed"

\* the loop of main run with the futures taken in the order of submission
RECURSIVE InOrder(_, _, _, _)
InOrder(t, domains, counts, tracker) ==
    IF t > Len(urls) THEN [all_domains |-> domains, domains_per_source |-> counts]
    ELSE IF t \notin DOMAIN futures THEN InOrder(t + 1, domains, counts, tracker)
    ELSE LET o == ProcessFuture(futures[t].url, futures[t].text, futures[t].raised,
                                domains, counts, tracker, today)
         IN  InOrder(t + 1, o.all_domains, o.domains_per_source, o.error_tracker)

\* per_source as the submit loop leaves it: 0 for every skipped source
SkippedCounts ==
    [url \in {urls[i] : i \in (1..Len(urls)) \ DOMAIN futures} |-> 0]

\* C5: whatever order the futures complete in, the merged set, total_unique
\* and the per_source map are those of any other order, such as the order
\* of submission.
C5_OrderIndependent ==
    LoopDone =>
        LET o == InOrder(1, {}, SkippedCounts, load_error_tracker(tracker_file))
        IN  /\ all_domains = o.all_domains
            /\ Cardinality(all_domains) = Cardinality(o.all_domains)
            /\ domains_per_source = o.domains_per_source

WellFormedFile(file) ==
    \A url \in URLs : Intact(load_error_tracker(file), url)

\* C6: with an empty or well-formed health store main is never left by an
\* exception, whatever the fetches return and whichever results raise; at its
\* end every future was consumed, every source is accounted for, the health
\* state is saved and the merged output written.
C6_FailuresAbsorbed ==
    /\ pc = "aborted" => ~WellFormedFile(tracker_file)
    /\ pc = "done"
        => /\ \A t \in DOMAIN futures : futures[t].state = "consumed"
           /\ \A i \in 1..Len(urls) : urls[i] \in DOMAIN domains_per_source
           /\ tracker_file = Stored(error_tracker)
           /\ unified_hosts = [written |-> TRUE,
                               total_unique |-> Cardinality(all_domains),
                               per_source |-> domains_per_source,
                               domains |-> all_domains]

\* a run that ended although one result raised and another fetch came back empty
C6_Witness ==
    /\ pc = "done"
    /\ \E a, b \in DOMAIN futures :
        /\ futures[a].raised
        /\ ~futures[b].raised /\ futures[b].text = TextEmpty
        /\ unified_hosts.written

\* C7: a stored record without its consecutive_errors field counts as the
\* default record: the run does not fail, and once a fetch of that URL was
\* processed its record holds an error count.
C7_DamagedRecordIsDefault ==
    \A url \in DOMAIN tracker_file.data :
        "consecutive_errors" \notin DOMAIN tracker_file.data[url]
        => /\ pc # "aborted"
           /\ \A t \in DOMAIN futures :
                (futures[t].url = url /\ futures[t].state = "consumed" /\ pc = "collect")
                => "consecutive_errors" \in DOMAIN error_tracker[url]

\* C8: a success leaves the record of the URL at 0 errors with skip_until
\* unset, whatever it was before, and every other record as it was.
C8_SuccessResets ==
    [][\A t \in DOMAIN futures :
        (Consumes(t) /\ futures[t].text # TextEmpty
            /\ Intact(error_tracker, futures[t].url))
        => /\ futures[t].url \in DOMAIN error_tracker'
           /\ error_tracker'[futures[t].url] = Record(0, None)
           /\ \A other \in URLs \ {futures[t].url} :
                /\ other \in DOMAIN error_tracker' <=> other \in DOMAIN error_tracker
                /\ other \in DOMAIN error_tracker
                    => error_tracker'[other] = error_tracker[other]
      ]_vars

\* a source stored as blocked, its cooldown over, was fetched and is healthy
\* again while the other stored record is untouched
C8_Witness ==
    /\ pc = "collect"
    /\ \E url, other \in DOMAIN tracker_file.data :
        /\ url # other
        /\ Intact(tracker_file.data, url)
        /\ {url, other} \subseteq DOMAIN error_tracker
        /\ tracker_file.data[url]["consecutive_errors"] >= 3
        /\ tracker_file.data[url]["skip_until"] = strftime(StartDay)
        /\ error_tracker[url] = Record(0, None)
        /\ error_tracker[other] = tracker_file.data[other]

\* the record of url is a blocked one whose skip_until date has been reached
CooldownOver(url) ==
    /\ url \in DOMAIN error_tracker
    /\ Intact(error_tracker, url)
    /\ error_tracker[url]["consecutive_errors"] >= 3
    /\ Truthy(error_tracker[url]["skip_until"])
    /\ strptime(error_tracker[url]["skip_until"]).ok
    /\ strptime(error_tracker[url]["skip_until"]).date <= today

\* C9: once today has reached the skip_until of a blocked source, the submit
\* loop dispatches a fetch for it, and that fetch comes back.
C9_FetchedAgain ==
    /\ [][(pc = "submit" /\ next_url' = next_url + 1 /\ CooldownOver(urls[next_url]))
            => /\ next_url \in DOMAIN futures'
               /\ futures'[next_url].url = urls[next_url]
               /\ futures'[next_url].state = "running"]_vars
    /\ \A url \in URLs :
        (pc = "submit" /\ CooldownOver(url)
            /\ \E i \in next_url..Len(urls) : urls[i] = url)
        ~> (\E t \in DOMAIN futures :
                futures[t].url = url /\ futures[t].state # "running")

\* the stored skip_until of a blocked source is today, and it is being fetched
C9_Witness ==
    \E t \in DOMAIN futures :
        /\ CooldownOver(futures[t].url)
        /\ strptime(error_tracker[futures[t].url]["skip_until"]).date = today
        /\ futures[t].state = "running"

\* C10: a fetched text that is not empty is recorded as a success, however
\* many entries it yields, and its entries are counted and merged; an empty
\* text counts 0, adds nothing to the merged set and is recorded as a failure.
C10_SuccessIffTextNonEmpty ==
    [][\A t \in DOMAIN futures :
        (Consumes(t) /\ Intact(error_tracker, futures[t].url))
        => LET url == futures[t].url
               text == futures[t].text
           IN  /\ pc' = "collect"
               /\ IF text # TextEmpty
                  THEN /\ error_tracker'[url]["consecutive_errors"] = 0
                       /\ domains_per_source'[url] = Cardinality(Parsed[text])
                       /\ all_domains' = all_domains \cup Parsed[text]
                  ELSE /\ error_tracker'[url]["consecutive_errors"]
                            = Errors(error_tracker, url) + 1
                       /\ domains_per_source'[url] = 0
                       /\ all_domains' = all_domains
      ]_vars

\* a text without a single entry was taken as the recovery of a failing source
C10_Witness ==
    \E t \in DOMAIN futures :
        /\ futures[t].state = "consumed" /\ ~futures[t].raised
        /\ futures[t].text # TextEmpty /\ Parsed[futures[t].text] = {}
        /\ Intact(load_error_tracker(tracker_file), futures[t].url)
        /\ Intact(error_tracker, futures[t].url)
        /\ futures[t].url \in DOMAIN domains_per_source
        /\ Errors(load_error_tracker(tracker_file), futures[t].url) > 0
        /\ Errors(error_tracker, futures[t].url) = 0
        /\ domains_per_source[futures[t].url] = 0

\* ---- who writes the shared structures
\* the step is the coordinating thread taking the result of a finished future
TakesResult ==
    /\ pc = "collect"
    /\ \E t \in DOMAIN futures :
        futures[t].state = "finished" /\ futures'[t].state = "consumed"

\* the step is a pool worker finishing its fetch
WorkerStep ==
    \E t \in DOMAIN futures :
        futures[t].state = "running" /\ futures'[t].state = "finished"

\* the step is the skip branch of the submit loop, run by the coordinating thread
SkipStep ==
    /\ pc = "submit"
    /\ next_url' = next_url + 1
    /\ futures' = futures

\* C11 as stated: once the structures exist (line 238), the merged set, the
\* per-source count map and the health-tracker mapping change only in a step
\* in which the coordinating thread has received a fetch result.
C11_OnlyAfterResult ==
    [][(pc # "start"
            /\ <<all_domains, domains_per_source, error_tracker>>'
                    # <<all_domains, domains_per_source, error_tracker>>)
        => TakesResult]_vars

\* C11, amended: the merged set and the health-tracker mapping change only
\* when the coordinating thread has received a fetch result, the per-source
\* count map also in the skip branch of its submit loop; a step of a fetch
\* worker changes none of them, so no two mutations overlap.
C11_SingleWriter ==
    [][/\ (pc # "start" /\ <<all_domains, error_tracker>>' # <<all_domains, error_tracker>>)
            => TakesResult
       /\ (pc # "start" /\ domains_per_source' # domains_per_source)
            => (TakesResult \/ (SkipStep /\ ~WorkerStep))
       /\ WorkerStep
            => UNCHANGED <<all_domains, domains_per_source, error_tracker>>
      ]_vars

\* the coordinating thread has merged one result while a worker still fetches
C11_Witness ==
    /\ all_domains # {}
    /\ \E a, b \in DOMAIN futures :
        /\ futures[a].state = "consumed"
        /\ futures[b].state = "running"

\* ---- properties of parse_hosts
\* C12: every entry parse_hosts returns is lowercase and matches the domain
\* syntax: labels joined by dots, the last one of at least two letters.
C12_EntriesAreDomains ==
    pc \in {"returned", "returned again"}
        => \A entry \in hosts_domains :
            /\ entry = lower(entry)
            /\ DomainSyntax(entry)

\* C13: an entry extracted from a line and fed back as a plain line is
\* extracted again, and nothing else is.
C13_FedBackIsKept ==
    [][(pc = "call again" /\ pc' = "returned again")
        => hosts_domains' = {hosts_text}]_vars

\* ---- properties of the history files
\* the day numbers of the rows of a history file, in file order
RowDays(file) == [i \in 1..Len(file.rows) |-> row_date(file.rows[i].date).date]

\* no two rows of the file stand for the same date
DistinctDates(file) ==
    Cardinality({RowDays(file)[i] : i \in 1..Len(file.rows)}) = Len(file.rows)

\* the rows are in ascending order of their dates
Ascending(file) ==
    \A i \in 1..(Len(file.rows) - 1) : RowDays(file)[i] < RowDays(file)[i + 1]

\* what a log for a date already in the file does to it
Overwrites(before, after, date_str, count) ==
    HasDate(before, date_str)
        => /\ Len(after.rows) = Len(before.rows)
           /\ \A i \in 1..Len(after.rows) : after.rows[i].date = before.rows[i].date
           /\ ValueOn(after, date_str) = str(count)

\* C14: from an absent or empty history, neither history file ever holds two
\* rows of the same date; a log for a date already present leaves the number
\* and the dates of the rows as they are, and the row of that date then
\* holds the count just written.
C14_UniqueDates ==
    /\ [](DistinctDates(counts_history) /\ DistinctDates(ip_counts_history))
    /\ [][(<<counts_history, ip_counts_history, log_args>>'
                # <<counts_history, ip_counts_history, log_args>>)
            => /\ Overwrites(counts_history, counts_history',
                             log_args'.date_str, log_args'.count)
               /\ Overwrites(ip_counts_history, ip_counts_history',
                             log_args'.date_str, log_args'.count)]_vars

\* the count of a day was written a second time, in files that are full,
\* and is not the count the day before ended with
C14_Witness ==
    /\ log_args.today_found /\ log_args.updated
    /\ Len(ip_counts_history.rows) = 60
    /\ HasDate(counts_history, log_args.date_str)
    /\ HasDate(ip_counts_history, log_args.date_str)
    /\ ValueOn(counts_history, log_args.date_str) = str(log_args.count)
    /\ ValueOn(ip_counts_history, log_args.date_str) = str(log_args.count)
    /\ ip_counts_history.rows[59].value # str(log_args.count)

\* C15: the IP history never holds more than 60 rows; a log for a new date
\* into a file of 60 rows of distinct dates leaves 60 rows, in ascending
\* order of date, the oldest of the 61 dates gone.
C15_TrimsToSixty ==
    /\ [](Len(ip_counts_history.rows) <= 60)
    /\ [][(/\ <<ip_counts_history, log_args>>' # <<ip_counts_history, log_args>>
           /\ Len(ip_counts_history.rows) = 60
           /\ DistinctDates(ip_counts_history)
           /\ ~HasDate(ip_counts_history, log_args'.date_str))
            => LET old == {RowDays(ip_counts_history)[i] : i \in 1..60} \cup
                            {row_date(log_args'.date_str).date}
                   oldest == CHOOSE d \in old : \A e \in old : d <= e
               IN  /\ Len(ip_counts_history'.rows) = 60
                   /\ Ascending(ip_counts_history')
                   /\ {RowDays(ip_counts_history')[i] : i \in 1..60} = old \ {oldest}
          ]_vars

\* the 61st day was logged: the file holds 60 rows, the first day is gone
C15_Witness ==
    /\ Len(ip_counts_history.rows) = 60
    /\ ~log_args.updated
    /\ log_args.date_str = strftime(StartDay + 60)
    /\ ip_counts_history.rows[1].date = strftime(StartDay + 1)
    /\ ip_counts_history.rows[60].date = strftime(StartDay + 60)

\* C16: with one log per consecutive day the domain history is in ascending
\* order of date and never holds more than 30 rows.
C16_AtMostThirty ==
    /\ Ascending(counts_history)
    /\ Len(counts_history.rows) <= 30

\* ---- properties of the run as a whole
\* C17: when the refresh of the source list fails or the source file is
\* missing, the run sends one notification and exits with a status other
\* than 0: no fetch was dispatched, and unified_hosts.txt, error_tracker.json
\* and the history are as they were, then and ever after.
C17_FailsBeforeFetch ==
    /\ [](pc = "exited"
            => /\ notified = 1
               /\ ExitStatus # 0
               /\ futures = EmptyDict
               /\ ~unified_hosts.written
               /\ counts_history = NoHistory)
    /\ [][(pc = "start" /\ notified' # notified)
            => /\ pc' = "exited"
               /\ notified' = notified + 1
               /\ futures' = futures
               /\ tracker_file' = tracker_file
               /\ unified_hosts' = unified_hosts
               /\ counts_history' = counts_history]_vars
    /\ [][pc = "exited"
            => /\ pc' = "exited"
               /\ notified' = notified
               /\ tracker_file' = tracker_file]_vars

\* the run has exited, over a tracker file that holds records
C17_Witness ==
    /\ pc = "exited"
    /\ notified = 1
    /\ tracker_file \in WrittenFiles \ {NoFile}
    /\ ticks = 1

\* C18: within one run no two fetches are dispatched for the same URL, and,
\* record_result being applied at most once per URL, a source's
\* consecutive_errors is during the run at most 1 above what the tracker
\* file the run loaded holds for it.
C18_OncePerSource ==
    /\ \A t1, t2 \in DOMAIN futures : futures[t1].url = futures[t2].url => t1 = t2
    /\ (pc \in {"submit", "collect"} /\ WellFormedFile(tracker_file))
        => \A url \in URLs :
              Errors(error_tracker, url)
                  <= Errors(load_error_tracker(tracker_file), url) + 1

\* the source is in the list of the run and no fetch was dispatched for it
SkippedThroughout(url) ==
    /\ \E i \in 1..Len(urls) : urls[i] = url
    /\ \A t \in DOMAIN futures : futures[t].url # url

\* C19: the skip branch of the submit loop leaves the tracker as it is, and
\* the run saves for a source it skipped the record it loaded for it, error
\* count and skip_until as they were stored.
C19_SkipKeepsRecord ==
    /\ [][SkipStep => error_tracker' = error_tracker]_vars
    /\ [][(pc = "collect" /\ pc' = "done")
            => \A url \in URLs :
                  SkippedThroughout(url)
                      => /\ url \in DOMAIN tracker_file'.data
                         /\ tracker_file'.data[url] = tracker_file.data[url]]_vars

\* the run is over: it skipped a blocked source, whose record is stored with
\* its error count, and saved a new record for the other source
C19_Witness ==
    /\ pc = "done"
    /\ \E url, other \in URLs :
        /\ SkippedThroughout(url)
        /\ {url, other} \subseteq DOMAIN tracker_file.data
        /\ tracker_file.data[url] = Record(BLOCK_AFTER, strftime(StartDay + SKIP_DAYS))
        /\ \E t \in DOMAIN futures : futures[t].url = other
        /\ tracker_file.data[other] = Record(2, None)

\* the step takes the result of future t as a failure: the text is empty or
\* lines 251-253 raise
ConsumesFailure(t) ==
    /\ futures[t].state = "finished"
    /\ futures'[t].state = "consumed"
    /\ futures[t].text = TextEmpty \/ futures'[t].raised

\* C20: a failed fetch of a source whose cooldown is over, taken on day d,
\* raises its consecutive_errors by one, to more than 3, and sets skip_until
\* to d + 60, so that the source is skipped again from that moment; and the
\* count of a source goes down only by a fetch that succeeded, which sets it
\* to 0.
C20_BlockedAgainAtOnce ==
    /\ [][\A t \in DOMAIN futures :
            (ConsumesFailure(t) /\ CooldownOver(futures[t].url))
            => LET url == futures[t].url
               IN  /\ error_tracker'[url]["consecutive_errors"]
                        = error_tracker[url]["consecutive_errors"] + 1
                   /\ error_tracker'[url]["consecutive_errors"] > 3
                   /\ error_tracker'[url]["skip_until"] = strftime(today + 60)
                   /\ should_skip_url(url, error_tracker', today)
          ]_vars
    /\ [][\A url \in URLs :
            (/\ Intact(error_tracker, url) /\ Intact(error_tracker', url)
             /\ Errors(error_tracker', url) < Errors(error_tracker, url))
            => /\ Errors(error_tracker', url) = 0
               /\ \E t \in DOMAIN futures :
                    /\ futures[t].url = url
                    /\ Consumes(t)
                    /\ futures[t].text # TextEmpty
          ]_vars

\* a source stored with 4 errors and a skip_until of today was fetched, the
\* fetch failed, and it is blocked again for 60 days with 5 errors
C20_Witness ==
    /\ ticks = 0
    /\ \E t \in DOMAIN futures :
        LET url == futures[t].url
        IN  /\ futures[t].state = "consumed"
            /\ url \in DOMAIN tracker_file.data /\ url \in DOMAIN error_tracker
            /\ tracker_file.data[url] = Record(BLOCK_AFTER + 1, strftime(today))
            /\ error_tracker[url] = Record(BLOCK_AFTER + 2, strftime(today + SKIP_DAYS))
            /\ should_skip_url(url, error_tracker, today)
====
